---- MODULE Spec2Model ----
(***************************************************************************)
(* dbt-ui backend: the per-worktree operation lock (utils/operation_lock), *)
(* the dbt command job runner (routes/dbt_routes), the environment rebuild *)
(* (routes/venv_routes), the three-way merge (utils/merge_utils) and the   *)
(* file write that uses it (routes/file_routes).                           *)
(*                                                                         *)
(* Scheduling.  The FastAPI handlers are `async def`: they run on the one  *)
(* asyncio event loop, so the synchronous part of a handler is never       *)
(* interleaved with another handler (variable `loop` names the handler the *)
(* loop is running).  run_dbt_command_task is a synchronous background     *)
(* task and _recreate_venv_sync runs under asyncio.to_thread: both run on  *)
(* worker threads, statement by statement, in parallel with the loop.      *)
(* Spec is that system.  SpecLock is the lock module alone, called by      *)
(* free threads in any order and interleaving.  SpecMerge is the merge     *)
(* functions applied to every triple of texts of its input sets, SpecWrite *)
(* a sequence of write_file requests on one file, SpecWriters the requests *)
(* of two clients on one file with the handler's read and write as steps.  *)
(***************************************************************************)
EXTENDS Naturals, Sequences, FiniteSets, TLC

\* Most lock-gated requests (Spec) or release_lock calls (SpecLock) in one run.
MaxOps == 2

Keys == {"/p1", "/p2"}
\* The key the free threads of SpecLock call the lock module on.
ThreadKeys == {"/p1"}
DbtProcs == {"d1", "d2"}
VenvProcs == {"v1"}
Pollers == {"u1"}
Threads == {"t1", "t2"}
Procs == DbtProcs \cup VenvProcs \cup Pollers \cup Threads

\* Python's None (printed "None" by an f-string, see Str).
None == "<None>"
\* last_completion_id before any release (None in the code).
NoId == 0

\* The label a free thread passes to acquire_lock.
ThreadLabel(t) == "op " \o t

VARIABLES
    \* utils/operation_lock.py
    worktree_locks,            \* keys of the _worktree_locks dict
    created,                   \* per key: WorktreeLock objects constructed so far
    locked,                    \* WorktreeLock.lock, per key
    current_operation,
    operation_started_at,
    last_completed_operation,
    last_completed_at,
    last_completion_id,
    \* routes/dbt_routes.py
    dbt_command_status,        \* the dict: a function on the keys it holds
    \* control
    loop,                      \* the handler running on the event loop, or None
    pc, ret,                   \* per process: position, and where a call returns to
    key, action, opname,       \* per process: path_str, request, operation_name
    rv,                        \* per process: the result of its last lock call
    resp,                      \* per process: its last HTTP response
    outcome,                   \* per process: how its command / rebuild ended
    \* history
    uuid_issued,               \* number of uuid4 values drawn so far
    completion_ids,            \* per key: the completion ids produced, in order
    holder,                    \* per key: the label given to the acquire that holds it
    observed,                  \* per process: holder when its status call saw "locked"
    wins,                      \* per key: successful acquires since the last release
    releases,                  \* per process: release_lock calls of its current job
    n_ops,
    \* utils/merge_utils.py: the arguments of a merge and what it returned
    merge_in,
    merge_out,
    \* routes/file_routes.py: the file on disk, and the last write_file
    \* request with its response
    file_content,
    write_out,
    \* routes/file_routes.py: per client, its write_file request while the
    \* handler runs and its answer
    requests

lockVars == <<worktree_locks, created, locked, current_operation, operation_started_at,
              last_completed_operation, last_completed_at, last_completion_id>>
histVars == <<uuid_issued, completion_ids, holder, wins>>
vars == <<worktree_locks, created, locked, current_operation, operation_started_at,
          last_completed_operation, last_completed_at, last_completion_id,
          dbt_command_status, loop, pc, ret, key, action, opname, rv, resp,
          outcome, uuid_issued, completion_ids, holder, observed, wins,
          releases, n_ops,
          merge_in, merge_out, file_content, write_out, requests>>
\* the variables of the merge and of the file write, which no lock, job or
\* rebuild step touches
mergeVars == <<merge_in, merge_out>>
fileVars == <<file_content, write_out, requests>>
editVars == <<mergeVars, fileVars>>

----------------------------------------------------------------------------
\* Values

\* datetime.now(): instants are not told apart.
Now(p) == "now"

\* datetime.isoformat()
Isoformat(t) == "iso:" \o t

\* f"{x}" of an Optional[str]
Str(x) == IF x = None THEN "None" ELSE x

\* str(uuid.uuid4()): a value never drawn before.
Uuid4Repeat == NoId + 1
Uuid4 == uuid_issued + 1

EmptyStatus ==
    [is_locked |-> FALSE, operation |-> None, started_at |-> None,
     last_completed_operation |-> None, last_completed_at |-> None,
     last_completion_id |-> NoId]

NoRv == [fn |-> "none", raised |-> FALSE, ok |-> FALSE, id |-> NoId,
         status |-> EmptyStatus]

NoAction == [command |-> None, selector |-> "", target |-> "", full_refresh |-> FALSE]

NoResp == [code |-> 0, detail |-> "", body |-> [status |-> "none"]]

NoOutcome == [kind |-> "none", returncode |-> 0, stdout |-> "", stderr |-> "",
              message |-> ""]

----------------------------------------------------------------------------
\* Scheduling

\* Return labels of calls made by a handler on the event loop.
LoopRets == {"dc160", "dc180", "dc183", "rv330", "rv337", "rv340", "rv352", "os58"}

\* A finished call or request shows its result in one state ("done") and is
\* taken down in the next step, before anything else moves: taking it down
\* touches nothing shared, so no interleaving is lost.
Quiet == \A q \in Procs : pc[q] # "done"

\* p may take its next step: a handler only while the loop runs it.
Runnable(p) == Quiet /\ ((ret[p] \in LoopRets) => (loop = p))

At(p, l) == pc[p] = l /\ Runnable(p)

Goto(p, l) == pc' = [pc EXCEPT ![p] = l]

Return(p) == pc' = [pc EXCEPT ![p] = ret[p]]

Call(p, entry, back) ==
    /\ pc' = [pc EXCEPT ![p] = entry]
    /\ ret' = [ret EXCEPT ![p] = back]

----------------------------------------------------------------------------
\* utils/operation_lock.py

\* _get_worktree_lock: create the WorktreeLock on first reference, under _locks_mutex.
GetWorktreeLockTwice(k) ==
    /\ worktree_locks' = worktree_locks \cup {k}
    /\ created' = [created EXCEPT ![k] = @ + 1]
GetWorktreeLock(k) ==
    /\ worktree_locks' = worktree_locks \cup {k}
    /\ created' = IF k \in worktree_locks THEN created
                  ELSE [created EXCEPT ![k] = @ + 1]

\* get_lock_status, statement by statement
gls35(p) ==
    /\ At(p, "gls35")
    /\ GetWorktreeLock(key[p])
    /\ Goto(p, "gls37")
    /\ rv' = [rv EXCEPT ![p] = [NoRv EXCEPT !.fn = "get_lock_status"]]
    /\ UNCHANGED <<locked, current_operation, operation_started_at,
                   last_completed_operation, last_completed_at, last_completion_id,
                   dbt_command_status, loop, ret, key, action, opname, resp, outcome,
                   histVars, observed, releases, n_ops>>

gls37(p) ==
    /\ At(p, "gls37")
    /\ rv' = [rv EXCEPT ![p].status.is_locked = locked[key[p]]]
    /\ observed' = [observed EXCEPT ![p] =
                        IF locked[key[p]] THEN holder[key[p]] ELSE None]
    /\ Goto(p, "gls41")
    /\ UNCHANGED <<lockVars, dbt_command_status, loop, ret, key, action, opname,
                   resp, outcome, histVars, releases, n_ops>>

gls41(p) ==
    /\ At(p, "gls41")
    /\ rv' = [rv EXCEPT ![p].status.operation =
                  IF rv[p].status.is_locked THEN current_operation[key[p]] ELSE None]
    /\ Goto(p, "gls42")
    /\ UNCHANGED <<lockVars, dbt_command_status, loop, ret, key, action, opname,
                   resp, outcome, histVars, observed, releases, n_ops>>

\* line 42, the condition: is_locked and wt_lock.operation_started_at
gls42(p) ==
    /\ At(p, "gls42")
    /\ IF rv[p].status.is_locked /\ operation_started_at[key[p]] # None
         THEN Goto(p, "gls42u")
         ELSE Goto(p, "gls43")
    /\ UNCHANGED <<lockVars, dbt_command_status, loop, ret, key, action, opname,
                   rv, resp, outcome, histVars, observed, releases, n_ops>>

\* line 42, the value: wt_lock.operation_started_at.isoformat(), a second read;
\* on None the attribute lookup raises AttributeError out of get_lock_status.
gls42u(p) ==
    /\ At(p, "gls42u")
    /\ IF operation_started_at[key[p]] = None
         THEN /\ rv' = [rv EXCEPT ![p].raised = TRUE]
              /\ Return(p)
         ELSE /\ rv' = [rv EXCEPT ![p].status.started_at =
                            Isoformat(operation_started_at[key[p]])]
              /\ Goto(p, "gls43")
    /\ UNCHANGED <<lockVars, dbt_command_status, loop, ret, key, action, opname,
                   resp, outcome, histVars, observed, releases, n_ops>>

gls43(p) ==
    /\ At(p, "gls43")
    /\ rv' = [rv EXCEPT ![p].status.last_completed_operation =
                  last_completed_operation[key[p]]]
    /\ Goto(p, "gls44")
    /\ UNCHANGED <<lockVars, dbt_command_status, loop, ret, key, action, opname,
                   resp, outcome, histVars, observed, releases, n_ops>>

\* line 44: last_completed_at is never reset to None, so its two reads agree.
gls44(p) ==
    /\ At(p, "gls44")
    /\ rv' = [rv EXCEPT ![p].status.last_completed_at =
                  IF last_completed_at[key[p]] # None
                    THEN Isoformat(last_completed_at[key[p]]) ELSE None]
    /\ Goto(p, "gls45")
    /\ UNCHANGED <<lockVars, dbt_command_status, loop, ret, key, action, opname,
                   resp, outcome, histVars, observed, releases, n_ops>>

gls45(p) ==
    /\ At(p, "gls45")
    /\ rv' = [rv EXCEPT ![p].status.last_completion_id = last_completion_id[key[p]]]
    /\ Return(p)
    /\ UNCHANGED <<lockVars, dbt_command_status, loop, ret, key, action, opname,
                   resp, outcome, histVars, observed, releases, n_ops>>

\* acquire_lock, statement by statement
acq51(p) ==
    /\ At(p, "acq51")
    /\ GetWorktreeLock(key[p])
    /\ Goto(p, "acq53")
    /\ rv' = [rv EXCEPT ![p] = [NoRv EXCEPT !.fn = "acquire_lock"]]
    /\ UNCHANGED <<locked, current_operation, operation_started_at,
                   last_completed_operation, last_completed_at, last_completion_id,
                   dbt_command_status, loop, ret, key, action, opname, resp, outcome,
                   histVars, observed, releases, n_ops>>

\* wt_lock.lock.acquire(blocking=False): the lock's own atomic test-and-set.
TryAcquireAlways(k) == TRUE
TryAcquire(k) == ~locked[k]

acq53(p) ==
    /\ At(p, "acq53")
    /\ IF TryAcquire(key[p])
         THEN /\ locked' = [locked EXCEPT ![key[p]] = TRUE]
              /\ holder' = [holder EXCEPT ![key[p]] = opname[p]]
              /\ wins' = [wins EXCEPT ![key[p]] = @ + 1]
              /\ rv' = [rv EXCEPT ![p].ok = TRUE]
              /\ Goto(p, "acq54")
         ELSE /\ rv' = [rv EXCEPT ![p].ok = FALSE]
              /\ Return(p)
              /\ UNCHANGED <<locked, holder, wins>>
    /\ UNCHANGED <<worktree_locks, created, current_operation, operation_started_at,
                   last_completed_operation, last_completed_at, last_completion_id,
                   dbt_command_status, loop, ret, key, action, opname, resp, outcome,
                   uuid_issued, completion_ids, observed, releases, n_ops>>

acq54(p) ==
    /\ At(p, "acq54")
    /\ current_operation' = [current_operation EXCEPT ![key[p]] = opname[p]]
    /\ Goto(p, "acq55")
    /\ UNCHANGED <<worktree_locks, created, locked, operation_started_at,
                   last_completed_operation, last_completed_at, last_completion_id,
                   dbt_command_status, loop, ret, key, action, opname, rv, resp,
                   outcome, histVars, observed, releases, n_ops>>

acq55(p) ==
    /\ At(p, "acq55")
    /\ operation_started_at' = [operation_started_at EXCEPT ![key[p]] = Now(p)]
    /\ Return(p)
    /\ UNCHANGED <<worktree_locks, created, locked, current_operation,
                   last_completed_operation, last_completed_at, last_completion_id,
                   dbt_command_status, loop, ret, key, action, opname, rv, resp,
                   outcome, histVars, observed, releases, n_ops>>

\* release_lock, statement by statement
rel62(p) ==
    /\ At(p, "rel62")
    /\ GetWorktreeLock(key[p])
    /\ Goto(p, "rel66")
    /\ rv' = [rv EXCEPT ![p] = [NoRv EXCEPT !.fn = "release_lock"]]
    /\ UNCHANGED <<locked, current_operation, operation_started_at,
                   last_completed_operation, last_completed_at, last_completion_id,
                   dbt_command_status, loop, ret, key, action, opname, resp, outcome,
                   histVars, observed, releases, n_ops>>

rel66(p) ==
    /\ At(p, "rel66")
    /\ last_completed_operation' =
           [last_completed_operation EXCEPT ![key[p]] = current_operation[key[p]]]
    /\ Goto(p, "rel67")
    /\ UNCHANGED <<worktree_locks, created, locked, current_operation, operation_started_at,
                   last_completed_at, last_completion_id,
                   dbt_command_status, loop, ret, key, action, opname, rv, resp,
                   outcome, histVars, observed, releases, n_ops>>

rel67(p) ==
    /\ At(p, "rel67")
    /\ last_completed_at' = [last_completed_at EXCEPT ![key[p]] = Now(p)]
    /\ Goto(p, "rel68")
    /\ UNCHANGED <<worktree_locks, created, locked, current_operation, operation_started_at,
                   last_completed_operation, last_completion_id,
                   dbt_command_status, loop, ret, key, action, opname, rv, resp,
                   outcome, histVars, observed, releases, n_ops>>

rel68(p) ==
    /\ At(p, "rel68")
    /\ last_completion_id' = [last_completion_id EXCEPT ![key[p]] = Uuid4]
    /\ uuid_issued' = uuid_issued + 1
    /\ completion_ids' = [completion_ids EXCEPT ![key[p]] = Append(@, Uuid4)]
    /\ rv' = [rv EXCEPT ![p].id = Uuid4]
    /\ Goto(p, "rel70")
    /\ UNCHANGED <<worktree_locks, created, locked, current_operation, operation_started_at,
                   last_completed_operation, last_completed_at,
                   dbt_command_status, loop, ret, key, action, opname, resp,
                   outcome, holder, wins, observed, releases, n_ops>>

rel70(p) ==
    /\ At(p, "rel70")
    /\ current_operation' = [current_operation EXCEPT ![key[p]] = None]
    /\ Goto(p, "rel71")
    /\ UNCHANGED <<worktree_locks, created, locked, operation_started_at,
                   last_completed_operation, last_completed_at, last_completion_id,
                   dbt_command_status, loop, ret, key, action, opname, rv, resp,
                   outcome, histVars, observed, releases, n_ops>>

rel71(p) ==
    /\ At(p, "rel71")
    /\ operation_started_at' = [operation_started_at EXCEPT ![key[p]] = None]
    /\ Goto(p, "rel72")
    /\ UNCHANGED <<worktree_locks, created, locked, current_operation,
                   last_completed_operation, last_completed_at, last_completion_id,
                   dbt_command_status, loop, ret, key, action, opname, rv, resp,
                   outcome, histVars, observed, releases, n_ops>>

\* wt_lock.lock.release(): RuntimeError on an unlocked lock, caught at line 73.
LockReleaseKeep(k) == locked' = locked
LockReleaseToggle(k) == locked' = [locked EXCEPT ![k] = ~@]
LockRelease(k) == locked' = [locked EXCEPT ![k] = FALSE]

rel72(p) ==
    /\ At(p, "rel72")
    /\ LockRelease(key[p])
    /\ rv' = [rv EXCEPT ![p].ok = locked[key[p]]]
    /\ holder' = [holder EXCEPT ![key[p]] = None]
    /\ wins' = [wins EXCEPT ![key[p]] = 0]
    /\ Return(p)
    /\ UNCHANGED <<worktree_locks, created, current_operation, operation_started_at,
                   last_completed_operation, last_completed_at, last_completion_id,
                   dbt_command_status, loop, ret, key, action, opname, resp,
                   outcome, uuid_issued, completion_ids, observed, releases, n_ops>>

\* is_locked
isl80(p) ==
    /\ At(p, "isl80")
    /\ GetWorktreeLock(key[p])
    /\ Goto(p, "isl81")
    /\ rv' = [rv EXCEPT ![p] = [NoRv EXCEPT !.fn = "is_locked"]]
    /\ UNCHANGED <<locked, current_operation, operation_started_at,
                   last_completed_operation, last_completed_at, last_completion_id,
                   dbt_command_status, loop, ret, key, action, opname, resp, outcome,
                   histVars, observed, releases, n_ops>>

isl81(p) ==
    /\ At(p, "isl81")
    /\ rv' = [rv EXCEPT ![p].ok = locked[key[p]]]
    /\ Return(p)
    /\ UNCHANGED <<lockVars, dbt_command_status, loop, ret, key, action, opname,
                   resp, outcome, histVars, observed, releases, n_ops>>

----------------------------------------------------------------------------
\* The lock module called directly by free threads (SpecLock)

CallAcquireLock(t, k, l) ==
    /\ pc[t] = "idle" /\ Quiet
    /\ Call(t, "acq51", "done")
    /\ key' = [key EXCEPT ![t] = k]
    /\ opname' = [opname EXCEPT ![t] = l]
    /\ UNCHANGED <<lockVars, dbt_command_status, loop, action, rv, resp, outcome,
                   histVars, observed, releases, n_ops>>

CallReleaseLock(t, k) ==
    /\ pc[t] = "idle" /\ Quiet
    /\ n_ops < MaxOps
    /\ n_ops' = n_ops + 1
    /\ Call(t, "rel62", "done")
    /\ key' = [key EXCEPT ![t] = k]
    /\ UNCHANGED <<lockVars, dbt_command_status, loop, action, opname, rv, resp,
                   outcome, histVars, observed, releases>>

CallGetLockStatus(t, k) ==
    /\ pc[t] = "idle" /\ Quiet
    /\ Call(t, "gls35", "done")
    /\ key' = [key EXCEPT ![t] = k]
    /\ UNCHANGED <<lockVars, dbt_command_status, loop, action, opname, rv, resp,
                   outcome, histVars, observed, releases, n_ops>>

CallIsLocked(t, k) ==
    /\ pc[t] = "idle" /\ Quiet
    /\ Call(t, "isl80", "done")
    /\ key' = [key EXCEPT ![t] = k]
    /\ UNCHANGED <<lockVars, dbt_command_status, loop, action, opname, rv, resp,
                   outcome, histVars, observed, releases, n_ops>>

----------------------------------------------------------------------------
\* utils/subprocess_utils.py

\* CommandResult.success
SuccessNonNegative(r) == r.returncode >= 0
Success(r) == r.returncode = 0

\* CommandResult.error: stderr, or stdout if stderr is empty
Error(r) == IF r.stderr # "" THEN r.stderr ELSE r.stdout

Result(rc, out, err) ==
    [kind |-> "result", returncode |-> rc, stdout |-> out, stderr |-> err,
     message |-> ""]

\* What run_command(cmd, path, timeout=300, env=env) and the statements that
\* build cmd and env can do: return a CommandResult, raise
\* subprocess.TimeoutExpired, or raise any other exception.
Outcomes ==
    { Result(0, "out", "warn"), Result(1, "", "err"), Result(2, "out", ""),
      [NoOutcome EXCEPT !.kind = "timeout"],
      [NoOutcome EXCEPT !.kind = "exception", !.message = "boom"] }

----------------------------------------------------------------------------
\* routes/dbt_routes.py

VALID_DBT_COMMANDS == {"compile", "run", "test", "seed"}

\* action.command.lower().strip() on the commands drawn below
LowerStrip(c) ==
    CASE c = " Run " -> "run"
      [] c = "compile" -> "compile"
      [] c = "build" -> "build"
      [] OTHER -> c

\* The requests drawn: their selectors and targets are ones that
\* validate_dbt_selector and validate_dbt_target return unchanged.
DbtRequests ==
    { [command |-> "compile", selector |-> "", target |-> "", full_refresh |-> FALSE],
      [command |-> " Run ", selector |-> "m", target |-> "", full_refresh |-> TRUE],
      [command |-> "build", selector |-> "", target |-> "", full_refresh |-> FALSE] }

\* lines 166-177
OperationName(a) ==
    LET suffix == IF a.full_refresh /\ a.command \in {"run", "seed"}
                    THEN " (full refresh)" ELSE ""
    IN CASE a.command = "compile" ->
              IF a.selector # "" THEN "Compiling: " \o a.selector
                                 ELSE "Compiling entire project"
         [] a.command = "run" ->
              (IF a.selector # "" THEN "Running: " \o a.selector
                                  ELSE "Running all models") \o suffix
         [] a.command = "test" ->
              IF a.selector # "" THEN "Testing: " \o a.selector
                                 ELSE "Testing all models"
         [] a.command = "seed" ->
              (IF a.selector # "" THEN "Seeding: " \o a.selector
                                  ELSE "Seeding all seeds") \o suffix
         [] OTHER ->
              IF a.selector # "" THEN "dbt " \o a.command \o ": " \o a.selector
                                 ELSE "dbt " \o a.command

ConflictDetail(op) == "Another operation is already running: " \o Str(op)

\* dbt_command_status[path_str] = record
SetStatusRebind(k, rec) == dbt_command_status' = [x \in {k} |-> rec]
SetStatus(k, rec) ==
    dbt_command_status' =
        [x \in (DOMAIN dbt_command_status) \cup {k} |->
            IF x = k THEN rec ELSE dbt_command_status[x]]

RunningStatus(p) ==
    [status |-> "running", command |-> action[p].command,
     selector |-> action[p].selector, started_at |-> Isoformat(Now(p))]

\* lines 100-131: the record written for each way the command can end
TerminalStatusStillRunning(p, o) == RunningStatus(p)
TerminalStatus(p, o) ==
    LET base == [command |-> action[p].command, selector |-> action[p].selector,
                 completed_at |-> Isoformat(Now(p))]
    IN CASE o.kind = "result" /\ Success(o) ->
              base @@ [status |-> "success", output |-> o.stdout]
         [] o.kind = "result" /\ ~Success(o) ->
              base @@ [status |-> "failed", error |-> Error(o)]
         [] o.kind = "timeout" ->
              base @@ [status |-> "failed",
                       error |-> "dbt " \o action[p].command
                                   \o " timed out after 5 minutes"]
         [] OTHER ->
              base @@ [status |-> "failed", error |-> o.message]

\* get_dbt_command_status (lines 29-38)
JobStatusOf(k) ==
    IF k \notin DOMAIN dbt_command_status
      THEN [status |-> "not_started"]
      ELSE dbt_command_status[k]

\* The handler returns or raises: the response is sent and the loop is free.
Respond(p, r) ==
    /\ resp' = [resp EXCEPT ![p] = r]
    /\ Goto(p, "done")
    /\ loop' = None

\* dbt_command, lines 139-159; the paths drawn are project paths that exist.
DbtCommandBegin(p, k, a) ==
    /\ pc[p] = "idle" /\ Quiet /\ loop = None
    /\ n_ops < MaxOps
    /\ IF LowerStrip(a.command) \notin VALID_DBT_COMMANDS
         THEN /\ Respond(p, [NoResp EXCEPT !.code = 400,
                                !.detail = "Invalid command: " \o LowerStrip(a.command)])
              /\ UNCHANGED <<ret, key, action, n_ops>>
         ELSE /\ key' = [key EXCEPT ![p] = k]
              /\ action' = [action EXCEPT ![p] =
                                [a EXCEPT !.command = LowerStrip(a.command)]]
              /\ loop' = p
              /\ Call(p, "gls35", "dc160")
              /\ n_ops' = n_ops + 1
              /\ UNCHANGED resp
    /\ UNCHANGED <<lockVars, dbt_command_status, opname, rv, outcome, histVars,
                   observed, releases>>

\* dbt_command, lines 160-180 (status from line 159) and lines 181-184 (status
\* from line 183): 409 with the operation read, or go on to acquire_lock.  An
\* exception out of get_lock_status is not caught: the framework answers 500.
DbtCommandStatusChecked(p) ==
    /\ pc[p] \in {"dc160", "dc183"} /\ Runnable(p)
    /\ IF rv[p].raised
         THEN /\ Respond(p, [NoResp EXCEPT !.code = 500,
                                !.detail = "Internal Server Error"])
              /\ UNCHANGED <<ret, opname>>
       ELSE IF pc[p] = "dc183" \/ rv[p].status.is_locked
         THEN /\ Respond(p, [NoResp EXCEPT !.code = 409,
                                !.detail = ConflictDetail(rv[p].status.operation)])
              /\ UNCHANGED <<ret, opname>>
         ELSE /\ opname' = [opname EXCEPT ![p] = OperationName(action[p])]
              /\ Call(p, "acq51", "dc180")
              /\ UNCHANGED <<resp, loop>>
    /\ UNCHANGED <<lockVars, dbt_command_status, key, action, rv, outcome,
                   histVars, observed, releases, n_ops>>

\* dbt_command, lines 180-197: acquire_lock has returned
DbtCommandAcquired(p) ==
    /\ At(p, "dc180")
    /\ IF ~rv[p].ok
         THEN /\ Call(p, "gls35", "dc183")
              /\ UNCHANGED <<resp, loop>>
         ELSE \* background_tasks.add_task(...); return {"status": "started", ...}
              /\ resp' = [resp EXCEPT ![p] =
                     [code |-> 200, detail |-> "",
                      body |-> [status |-> "started",
                                command |-> action[p].command,
                                selector |-> action[p].selector,
                                message |-> opname[p]]]]
              /\ Call(p, "t73", "thread")
              /\ loop' = None
    /\ UNCHANGED <<lockVars, dbt_command_status, key, action, opname, rv, outcome,
                   histVars, observed, releases, n_ops>>

\* run_dbt_command_task, lines 70-78, on a worker thread
TaskStart(p) ==
    /\ At(p, "t73")
    /\ SetStatus(key[p], RunningStatus(p))
    /\ Goto(p, "t98")
    /\ UNCHANGED <<lockVars, loop, ret, key, action, opname, rv, resp, outcome,
                   histVars, observed, releases, n_ops>>

\* finally: release_lock(path_str), line 133
TaskFinallyUnlessTimeout(p, o) ==
    IF o.kind = "timeout"
      THEN Goto(p, "t133") /\ UNCHANGED <<ret, releases>>
      ELSE Call(p, "rel62", "t133") /\ releases' = [releases EXCEPT ![p] = @ + 1]
TaskFinally(p, o) ==
    /\ Call(p, "rel62", "t133")
    /\ releases' = [releases EXCEPT ![p] = @ + 1]

\* run_dbt_command_task, lines 80-133: the command is built and run, it ends
\* as o, the terminal record is written and the finally clause is entered.
TaskRun(p, o) ==
    /\ At(p, "t98")
    /\ SetStatus(key[p], TerminalStatus(p, o))
    /\ outcome' = [outcome EXCEPT ![p] = o]
    /\ TaskFinally(p, o)
    /\ UNCHANGED <<lockVars, loop, key, action, opname, rv, resp, histVars,
                   observed, n_ops>>

\* get_dbt_command_status, lines 29-38: one dict lookup on the loop
GetDbtCommandStatus(p, k) ==
    /\ pc[p] = "idle" /\ Quiet /\ loop = None
    /\ key' = [key EXCEPT ![p] = k]
    /\ resp' = [resp EXCEPT ![p] = [code |-> 200, detail |-> "",
                                    body |-> JobStatusOf(k)]]
    /\ Goto(p, "done")
    /\ UNCHANGED <<lockVars, dbt_command_status, loop, ret, action, opname, rv,
                   outcome, histVars, observed, releases, n_ops>>

\* get_dbt_operation_status, lines 48-58
GetDbtOperationStatusBegin(p, k) ==
    /\ pc[p] = "idle" /\ Quiet /\ loop = None
    /\ key' = [key EXCEPT ![p] = k]
    /\ loop' = p
    /\ Call(p, "gls35", "os58")
    /\ UNCHANGED <<lockVars, dbt_command_status, action, opname, rv, resp,
                   outcome, histVars, observed, releases, n_ops>>

\* get_dbt_operation_status, lines 60-65
GetDbtOperationStatusReturn(p) ==
    /\ At(p, "os58")
    /\ IF rv[p].raised
         THEN Respond(p, [NoResp EXCEPT !.code = 500,
                             !.detail = "Internal Server Error"])
         ELSE Respond(p, [code |-> 200, detail |-> "",
                 body |-> [is_running |-> rv[p].status.is_locked,
                           operation |-> rv[p].status.operation,
                           last_completed_operation |->
                               rv[p].status.last_completed_operation,
                           last_completion_id |->
                               rv[p].status.last_completion_id]])
    /\ UNCHANGED <<lockVars, dbt_command_status, ret, key, action, opname, rv,
                   outcome, histVars, observed, releases, n_ops>>

----------------------------------------------------------------------------
\* routes/venv_routes.py

\* How _recreate_venv_sync ends: it returns, raises HTTPException, or raises
\* anything else.
VenvOutcomes ==
    { [NoOutcome EXCEPT !.kind = "ok"],
      [NoOutcome EXCEPT !.kind = "http", !.message = "Failed to create venv"],
      [NoOutcome EXCEPT !.kind = "exception", !.message = "boom"] }

\* recreate_venv, lines 325-329
RecreateVenvBegin(p, k) ==
    /\ pc[p] = "idle" /\ Quiet /\ loop = None
    /\ n_ops < MaxOps
    /\ n_ops' = n_ops + 1
    /\ key' = [key EXCEPT ![p] = k]
    /\ loop' = p
    /\ Call(p, "gls35", "rv330")
    /\ UNCHANGED <<lockVars, dbt_command_status, action, opname, rv, resp,
                   outcome, histVars, observed, releases>>

\* recreate_venv, lines 330-337 (status from line 329) and 338-341 (from 340)
RecreateVenvStatusChecked(p) ==
    /\ pc[p] \in {"rv330", "rv340"} /\ Runnable(p)
    /\ IF rv[p].raised
         THEN /\ Respond(p, [NoResp EXCEPT !.code = 500,
                                !.detail = "Internal Server Error"])
              /\ UNCHANGED <<ret, opname>>
       ELSE IF pc[p] = "rv340" \/ rv[p].status.is_locked
         THEN /\ Respond(p, [NoResp EXCEPT !.code = 409,
                                !.detail = ConflictDetail(rv[p].status.operation)])
              /\ UNCHANGED <<ret, opname>>
         ELSE /\ opname' = [opname EXCEPT ![p] = "Setting up environment"]
              /\ Call(p, "acq51", "rv337")
              /\ UNCHANGED <<resp, loop>>
    /\ UNCHANGED <<lockVars, dbt_command_status, key, action, rv, outcome,
                   histVars, observed, releases, n_ops>>

\* recreate_venv, lines 337-345: acquire_lock has returned; on success the
\* handler awaits asyncio.to_thread(_recreate_venv_sync, ...) and the loop is free.
RecreateVenvAcquired(p) ==
    /\ At(p, "rv337")
    /\ IF ~rv[p].ok
         THEN Call(p, "gls35", "rv340") /\ UNCHANGED loop
         ELSE Call(p, "rv345", "thread") /\ loop' = None
    /\ UNCHANGED <<lockVars, dbt_command_status, key, action, opname, rv, resp,
                   outcome, histVars, observed, releases, n_ops>>

\* _recreate_venv_sync ends on its worker thread
RecreateVenvSync(p, o) ==
    /\ At(p, "rv345")
    /\ outcome' = [outcome EXCEPT ![p] = o]
    /\ Goto(p, "rv346")
    /\ UNCHANGED <<lockVars, dbt_command_status, loop, ret, key, action, opname,
                   rv, resp, histVars, observed, releases, n_ops>>

\* recreate_venv resumes on the loop; finally: release_lock(path_str), line 352
RecreateVenvResume(p) ==
    /\ pc[p] = "rv346" /\ Quiet /\ loop = None
    /\ loop' = p
    /\ Call(p, "rel62", "rv352")
    /\ releases' = [releases EXCEPT ![p] = @ + 1]
    /\ UNCHANGED <<lockVars, dbt_command_status, key, action, opname, rv, resp,
                   outcome, histVars, observed, n_ops>>

\* recreate_venv, lines 346-350: the result, or the exception as a response
RecreateVenvReturn(p) ==
    /\ At(p, "rv352")
    /\ Respond(p, CASE outcome[p].kind = "ok" ->
                         [code |-> 200, detail |-> "",
                          body |-> [status |-> "venv", success |-> TRUE]]
                    [] outcome[p].kind = "http" ->
                         [NoResp EXCEPT !.code = 500, !.detail = outcome[p].message]
                    [] OTHER ->
                         [NoResp EXCEPT !.code = 500,
                             !.detail = "Error recreating venv: " \o outcome[p].message])
    /\ UNCHANGED <<lockVars, dbt_command_status, ret, key, action, opname, rv,
                   outcome, histVars, observed, releases, n_ops>>

----------------------------------------------------------------------------
\* A call, request or background task is over: its frame is dropped.
Done(p) ==
    /\ pc[p] \in {"done", "t133"}
    /\ pc[p] = "t133" => Quiet
    /\ Goto(p, "idle")
    /\ ret' = [ret EXCEPT ![p] = "idle"]
    /\ key' = [key EXCEPT ![p] = None]
    /\ action' = [action EXCEPT ![p] = NoAction]
    /\ opname' = [opname EXCEPT ![p] = None]
    /\ rv' = [rv EXCEPT ![p] = NoRv]
    /\ resp' = [resp EXCEPT ![p] = NoResp]
    /\ outcome' = [outcome EXCEPT ![p] = NoOutcome]
    /\ observed' = [observed EXCEPT ![p] = None]
    /\ releases' = [releases EXCEPT ![p] = 0]
    /\ UNCHANGED <<lockVars, dbt_command_status, loop, histVars, n_ops>>

----------------------------------------------------------------------------
InitLocks ==
    /\ worktree_locks = {}
    /\ created = [k \in Keys |-> 0]
    /\ locked = [k \in Keys |-> FALSE]
    /\ current_operation = [k \in Keys |-> None]
    /\ operation_started_at = [k \in Keys |-> None]
    /\ last_completed_operation = [k \in Keys |-> None]
    /\ last_completed_at = [k \in Keys |-> None]
    /\ last_completion_id = [k \in Keys |-> NoId]
    /\ dbt_command_status = <<>>
    /\ loop = None
    /\ pc = [p \in Procs |-> "idle"]
    /\ ret = [p \in Procs |-> "idle"]
    /\ key = [p \in Procs |-> None]
    /\ action = [p \in Procs |-> NoAction]
    /\ opname = [p \in Procs |-> None]
    /\ rv = [p \in Procs |-> NoRv]
    /\ resp = [p \in Procs |-> NoResp]
    /\ outcome = [p \in Procs |-> NoOutcome]
    /\ uuid_issued = 0
    /\ completion_ids = [k \in Keys |-> <<>>]
    /\ holder = [k \in Keys |-> None]
    /\ observed = [p \in Procs |-> None]
    /\ wins = [k \in Keys |-> 0]
    /\ releases = [p \in Procs |-> 0]
    /\ n_ops = 0

\* no merge called yet
InitNoMerge ==
    /\ merge_in = [original |-> <<>>, user_version |-> <<>>, disk_version |-> <<>>]
    /\ merge_out = [fn |-> "none"]

\* the clients that send write_file requests for one file, and a client with
\* no request in the handler
Clients == {"c1", "c2"}
NoRequest == [pc |-> "idle"]

\* no write_file request yet
InitNoWrite ==
    /\ file_content = <<>>
    /\ write_out = [fn |-> "none"]
    /\ requests = [c \in Clients |-> NoRequest]

Init ==
    /\ InitLocks
    /\ InitNoMerge
    /\ InitNoWrite

LockStep ==
    \/ \E p \in Procs : gls35(p) /\ UNCHANGED editVars
    \/ \E p \in Procs : gls37(p) /\ UNCHANGED editVars
    \/ \E p \in Procs : gls41(p) /\ UNCHANGED editVars
    \/ \E p \in Procs : gls42(p) /\ UNCHANGED editVars
    \/ \E p \in Procs : gls42u(p) /\ UNCHANGED editVars
    \/ \E p \in Procs : gls43(p) /\ UNCHANGED editVars
    \/ \E p \in Procs : gls44(p) /\ UNCHANGED editVars
    \/ \E p \in Procs : gls45(p) /\ UNCHANGED editVars
    \/ \E p \in Procs : acq51(p) /\ UNCHANGED editVars
    \/ \E p \in Procs : acq53(p) /\ UNCHANGED editVars
    \/ \E p \in Procs : acq54(p) /\ UNCHANGED editVars
    \/ \E p \in Procs : acq55(p) /\ UNCHANGED editVars
    \/ \E p \in Procs : rel62(p) /\ UNCHANGED editVars
    \/ \E p \in Procs : rel66(p) /\ UNCHANGED editVars
    \/ \E p \in Procs : rel67(p) /\ UNCHANGED editVars
    \/ \E p \in Procs : rel68(p) /\ UNCHANGED editVars
    \/ \E p \in Procs : rel70(p) /\ UNCHANGED editVars
    \/ \E p \in Procs : rel71(p) /\ UNCHANGED editVars
    \/ \E p \in Procs : rel72(p) /\ UNCHANGED editVars
    \/ \E p \in Procs : Done(p) /\ UNCHANGED editVars

NextLock ==
    \/ \E t \in Threads, k \in ThreadKeys : CallAcquireLock(t, k, ThreadLabel(t)) /\ UNCHANGED editVars
    \/ \E t \in Threads, k \in ThreadKeys : CallReleaseLock(t, k) /\ UNCHANGED editVars
    \/ \E t \in Threads, k \in ThreadKeys : CallGetLockStatus(t, k) /\ UNCHANGED editVars
    \/ \E t \in Threads, k \in ThreadKeys : CallIsLocked(t, k) /\ UNCHANGED editVars
    \/ \E p \in Procs : isl80(p) /\ UNCHANGED editVars
    \/ \E p \in Procs : isl81(p) /\ UNCHANGED editVars
    \/ LockStep

SpecLock == Init /\ [][NextLock]_vars

Next ==
    \/ \E p \in DbtProcs, k \in Keys, a \in DbtRequests : DbtCommandBegin(p, k, a) /\ UNCHANGED editVars
    \/ \E p \in DbtProcs : DbtCommandStatusChecked(p) /\ UNCHANGED editVars
    \/ \E p \in DbtProcs : DbtCommandAcquired(p) /\ UNCHANGED editVars
    \/ \E p \in DbtProcs : TaskStart(p) /\ UNCHANGED editVars
    \/ \E p \in DbtProcs, o \in Outcomes : TaskRun(p, o) /\ UNCHANGED editVars
    \/ \E p \in Pollers, k \in Keys : GetDbtCommandStatus(p, k) /\ UNCHANGED editVars
    \/ \E p \in VenvProcs, k \in Keys : RecreateVenvBegin(p, k) /\ UNCHANGED editVars
    \/ \E p \in VenvProcs : RecreateVenvStatusChecked(p) /\ UNCHANGED editVars
    \/ \E p \in VenvProcs : RecreateVenvAcquired(p) /\ UNCHANGED editVars
    \/ \E p \in VenvProcs, o \in VenvOutcomes : RecreateVenvSync(p, o) /\ UNCHANGED editVars
    \/ \E p \in VenvProcs : RecreateVenvResume(p) /\ UNCHANGED editVars
    \/ \E p \in VenvProcs : RecreateVenvReturn(p) /\ UNCHANGED editVars
    \/ LockStep

Spec == Init /\ [][Next]_vars


\* The worker thread of p's background task: its own statements and those of
\* the release_lock it calls.
Worker(p) ==
    /\ \/ TaskStart(p)
       \/ \E o \in Outcomes : TaskRun(p, o)
       \/ /\ ret[p] = "t133"
          /\ \/ rel62(p) \/ rel66(p) \/ rel67(p) \/ rel68(p)
             \/ rel70(p) \/ rel71(p) \/ rel72(p)
    /\ UNCHANGED editVars

\* A started background task is run and the command returns or times out: a
\* worker thread that can run again and again does run.  (Strong, not weak,
\* fairness only because a worker step waits while a finished request is
\* taken down, which always happens.)
SpecFair ==
    /\ Spec
    /\ \A p \in DbtProcs : SF_vars(Worker(p))
    /\ WF_vars(\E p \in Procs : Done(p) /\ UNCHANGED editVars)

----------------------------------------------------------------------------
\* Properties

Range(f) == {f[i] : i \in DOMAIN f}

Terminal(k) ==
    /\ k \in DOMAIN dbt_command_status
    /\ dbt_command_status[k].status \in {"success", "failed"}

ReleasePcs == {"rel62", "rel66", "rel67", "rel68", "rel70", "rel71", "rel72"}

\* p holds the lock of its key as a lock-gated operation: a dbt command from
\* its successful acquire to the lock.release() of its task, a rebuild likewise.
Gated(p) ==
    \/ pc[p] \in {"acq54", "acq55", "t73", "t98", "rv345", "rv346"}
    \/ pc[p] \in {"dc180", "rv337"} /\ rv[p].ok
    \/ pc[p] \in ReleasePcs /\ ret[p] \in {"t133", "rv352"}

Returned(p, fn) == pc[p] = "done" /\ rv[p].fn = fn

\* C1: acquire_lock returns True exactly when the key's lock is free at the
\* instant of its lock.acquire, and then the lock is held; so an acquire on a
\* held lock returns False, and between two releases of a key at most one
\* acquire returns True.
C1_AcquireIsTestAndSet ==
    /\ [][\A p \in Procs :
            (pc[p] = "acq53" /\ pc'[p] # "acq53") =>
                /\ rv'[p].ok = ~locked[key[p]]
                /\ locked'[key[p]]
                /\ (locked[key[p]] => pc'[p] = ret[p])]_vars
    /\ [](\A k \in Keys : wins[k] <= 1)

\* C1 witness: after a release, an acquire on a held lock has returned False.
C1_Witness ==
    \E t \in Threads :
        /\ Returned(t, "acquire_lock") /\ ~rv[t].ok
        /\ locked[key[t]] /\ wins[key[t]] = 1
        /\ Len(completion_ids[key[t]]) >= 1

\* C2: per key at most one lock-gated operation holds the lock, and a
\* dbt_command that finds the key busy is answered 409 with no task scheduled.
C2_OneWinnerOthersConflict ==
    /\ \A k \in Keys : Cardinality({p \in Procs : key[p] = k /\ Gated(p)}) <= 1
    /\ \A p \in DbtProcs :
          (pc[p] = "done" /\ rv[p].fn = "get_lock_status" /\ rv[p].status.is_locked)
              => resp[p].code = 409

\* C3: a 409 of dbt_command carries the label passed to the acquire_lock that
\* held the key when the request found it locked.
C3_ConflictCarriesWinnerLabel ==
    \A p \in DbtProcs :
        (pc[p] = "done" /\ resp[p].code = 409) =>
            /\ observed[p] # None
            /\ resp[p].detail = ConflictDetail(observed[p])

\* C4: the background task of a started dbt command calls release_lock exactly
\* once, however the command ends, and that call releases the lock.
C4_ReleaseExactlyOnce ==
    \A p \in DbtProcs :
        /\ releases[p] <= 1
        /\ pc[p] \in {"t73", "t98"} => releases[p] = 0
        /\ pc[p] = "t133" => (releases[p] = 1 /\ rv[p].fn = "release_lock" /\ rv[p].ok)

\* C4 witness: a task whose command timed out has returned from its one release.
C4_Witness ==
    \E p \in DbtProcs :
        pc[p] = "t133" /\ outcome[p].kind = "timeout" /\ releases[p] = 1

\* C5: every release_lock call, on a held lock or not, records the operation
\* that was current and sets a completion id that differs from the previous
\* one and from every id produced for the key before.
C5_ReleaseRecordsFreshId ==
    /\ [][\A p \in Procs :
            (pc[p] = "rel66" /\ pc'[p] = "rel67") =>
                last_completed_operation'[key[p]] = current_operation[key[p]]]_vars
    /\ [][\A p \in Procs :
            (pc[p] = "rel68" /\ pc'[p] = "rel70") =>
                /\ last_completion_id'[key[p]] # NoId
                /\ last_completion_id'[key[p]] # last_completion_id[key[p]]
                /\ last_completion_id'[key[p]] \notin Range(completion_ids[key[p]])]_vars
    /\ [](\A p \in Procs :
            Returned(p, "release_lock") =>
                /\ rv[p].id # NoId
                /\ rv[p].id \in Range(completion_ids[key[p]]))
    /\ [](\A k \in Keys : \A i, j \in DOMAIN completion_ids[k] :
            completion_ids[k][i] = completion_ids[k][j] => i = j)

\* C5 witness: a second release of a key, on a lock that was not held, has
\* returned with its own completion id.
C5_Witness ==
    \E t \in Threads :
        /\ Returned(t, "release_lock") /\ ~rv[t].ok
        /\ Len(completion_ids[key[t]]) >= 2
        /\ last_completion_id[key[t]] = rv[t].id
        /\ last_completed_operation[key[t]] = None

\* C6: release_lock never raises and leaves the lock free, held before or not;
\* a status read that sees the lock free reports no operation, and an acquire
\* on the free lock returns True.
C6_ReleaseUnheldIsSafe ==
    /\ [][\A p \in Procs :
            (pc[p] = "rel72" /\ pc'[p] # "rel72") =>
                ~locked'[key[p]] /\ ~rv'[p].raised]_vars
    /\ [][\A p \in Procs :
            (pc[p] = "acq53" /\ pc'[p] # "acq53" /\ ~locked[key[p]]) => rv'[p].ok]_vars
    /\ [](\A p \in Procs :
            (Returned(p, "get_lock_status") /\ ~rv[p].raised /\ ~rv[p].status.is_locked)
                => rv[p].status.operation = None)

\* C6 witness: a release of a lock that was not held has returned, the lock
\* is free, and it was not the first release of the key.
C6_Witness ==
    \E t \in Threads :
        /\ Returned(t, "release_lock") /\ ~rv[t].ok /\ ~rv[t].raised
        /\ ~locked[key[t]]
        /\ Len(completion_ids[key[t]]) = 2

\* C7: while a started dbt command has not finished, a job-status poll on its
\* key returns running with that command and selector.
C7_PollFollowsLatestSubmit ==
    \A u \in Pollers : \A p \in DbtProcs :
        (pc[u] = "done" /\ key[p] = key[u] /\ pc[p] \in {"t73", "t98"}) =>
            /\ resp[u].body.status = "running"
            /\ resp[u].body.command = action[p].command
            /\ resp[u].body.selector = action[p].selector

\* C8: a dbt command that was answered "started" leads to a state where its
\* key's job status is terminal and its key's lock is free.
C8_StartedLeadsToTerminalAndFree ==
    \A p \in DbtProcs :
        (pc[p] = "t73") ~>
            (pc[p] = "t133" /\ Terminal(key[p]) /\ ~locked[key[p]])

\* C8 witness: a task has just released its key, whose status is terminal.
C8_Witness ==
    \E p \in DbtProcs :
        pc[p] = "t133" /\ Terminal(key[p]) /\ ~locked[key[p]]
        /\ outcome[p].kind = "timeout"

\* C9: the record the task leaves is success with the command's stdout iff
\* the exit code was zero, failed with stderr (stdout if stderr is empty) on a
\* non-zero exit code, failed with the timeout message on a timeout, and
\* never running.
C9_TerminalStatusMatchesOutcome ==
    \A p \in DbtProcs :
        (pc[p] \in ReleasePcs /\ ret[p] = "t133") =>
            LET s == dbt_command_status[key[p]]
                o == outcome[p]
            IN /\ s.status \in {"success", "failed"}
               /\ s.command = action[p].command /\ s.selector = action[p].selector
               /\ (s.status = "success") <=> (o.kind = "result" /\ o.returncode = 0)
               /\ s.status = "success" => s.output = o.stdout
               /\ (o.kind = "result" /\ o.returncode # 0) =>
                      s.error = (IF o.stderr = "" THEN o.stdout ELSE o.stderr)
               /\ o.kind = "timeout" =>
                      s.error = "dbt " \o action[p].command \o " timed out after 5 minutes"

\* C9 witness: a command that exited non-zero with empty stderr has left a
\* failed record carrying its stdout.
C9_Witness ==
    \E p \in DbtProcs :
        /\ pc[p] \in ReleasePcs /\ ret[p] = "t133"
        /\ outcome[p].kind = "result" /\ outcome[p].returncode = 2
        /\ dbt_command_status[key[p]].status = "failed"
        /\ dbt_command_status[key[p]].error = "out"

\* C10: a terminal job record changes only when the task of a dbt command
\* that was answered "started" on the same key begins and writes running;
\* and while the record is terminal no command is running on that key.
C10_TerminalUntilResubmit ==
    /\ [][\A k \in Keys :
            (Terminal(k) /\ (k \notin DOMAIN dbt_command_status'
                             \/ dbt_command_status'[k] # dbt_command_status[k])) =>
                \E p \in DbtProcs :
                    /\ pc[p] = "t73" /\ key[p] = k /\ pc'[p] = "t98"
                    /\ resp[p].body.status = "started"
                    /\ dbt_command_status'[k].status = "running"]_vars
    /\ [](\A k \in Keys : \A p \in DbtProcs :
            (Terminal(k) /\ key[p] = k) => pc[p] # "t98")

\* C10 witness: a key's record is terminal while an environment rebuild,
\* begun later, holds that key's lock.
C10_Witness ==
    \E k \in Keys : \E v \in VenvProcs :
        Terminal(k) /\ key[v] = k /\ pc[v] = "rv346"

\* C22: a get_lock_status that has returned gives a record that the key's
\* state had at one instant: never is_locked = true with operation None, never
\* a holder's label without the started_at its acquire_lock wrote, never a
\* last_completed_operation without the last_completion_id of its release.
C22_StatusIsSnapshot ==
    \A p \in Procs :
        (Returned(p, "get_lock_status") /\ ~rv[p].raised) =>
            /\ rv[p].status.is_locked => rv[p].status.operation # None
            /\ rv[p].status.operation # None => rv[p].status.started_at # None
            /\ rv[p].status.last_completed_operation # None
               => rv[p].status.last_completion_id # NoId

\* C23: however the first references to a key interleave, one WorktreeLock
\* object has been constructed for each key of the dict and none for any
\* other key, and the lock of a key is held exactly while an acquire_lock on
\* it has returned True and no release has followed.
C23_OneLockObjectPerKey ==
    \A k \in Keys :
        /\ created[k] = IF k \in worktree_locks THEN 1 ELSE 0
        /\ locked[k] = (wins[k] = 1)
        /\ locked[k] => k \in worktree_locks

\* two threads are inside their first calls on one key, an acquire_lock that
\* has the lock and a get_lock_status that has read it as held
C23_Witness ==
    \E p, q \in Threads :
        /\ p # q /\ key[p] = key[q]
        /\ pc[p] = "acq54" /\ pc[q] = "gls41" /\ rv[q].status.is_locked
        /\ uuid_issued = 0
        /\ created[key[p]] = 1

\* C25: a key whose job status is running has its lock held; so a key whose
\* lock is free after a release has no job status or a terminal one.
C25_RunningImpliesLocked ==
    \A k \in Keys :
        /\ (k \in DOMAIN dbt_command_status /\ dbt_command_status[k].status = "running")
           => locked[k]
        /\ (k \in DOMAIN dbt_command_status /\ ~locked[k]
              /\ last_completion_id[k] # NoId)
           => Terminal(k)

\* a second command runs on a key whose first command has completed
C25_Witness ==
    \E k \in Keys :
        /\ k \in DOMAIN dbt_command_status
        /\ dbt_command_status[k].status = "running"
        /\ locked[k]
        /\ last_completion_id[k] # NoId

\* C30: get_lock_status never raises: every call returns a status record.
C30_StatusNeverRaises ==
    \A p \in Procs : rv[p].fn = "get_lock_status" => ~rv[p].raised

----------------------------------------------------------------------------
\* utils/merge_utils.py
\*
\* A text (a Python str) is a sequence of symbols.  A symbol is the newline, a
\* letter, or one of the literal strings of merge_utils.py lines 127-131 taken
\* as one symbol; a line is a text that holds no newline except, possibly, as
\* its last symbol.

NL == "\n"
START_MARKER == "<<<<<<< YOUR CHANGES"
SEPARATOR == "======="
END_MARKER == ">>>>>>> DISK VERSION"
LINE_DELETED == "(line deleted)"

\* a[i] and a[i:j] with Python's indices, which start at 0
Item(a, i) == a[i + 1]
Slice(a, i, j) == SubSeq(a, i + 1, j)

Max(m, n) == IF m >= n THEN m ELSE n

\* str.endswith('\n')
EndsWithNewline(s) == Len(s) > 0 /\ s[Len(s)] = NL

\* str.splitlines(keepends=True): each line keeps its newline; the last line
\* is the rest of the text when the text does not end with a newline.
RECURSIVE Splitlines(_)
Splitlines(s) ==
    IF s = <<>> THEN <<>>
    ELSE LET ends == {i \in 1..Len(s) : s[i] = NL}
             n == IF ends = {} THEN Len(s)
                  ELSE CHOOSE i \in ends : \A j \in ends : i <= j
         IN  <<SubSeq(s, 1, n)>> \o Splitlines(SubSeq(s, n + 1, Len(s)))

\* ''.join(lines)
RECURSIVE Join(_)
Join(lines) ==
    IF lines = <<>> THEN <<>> ELSE Head(lines) \o Join(Tail(lines))

\* difflib.SequenceMatcher(None, a, b) on sequences of lines (no junk; the
\* automatic junk heuristic needs 200 lines or more).
\*
\* The number of equal items from a[i], b[j] on, below ahi and bhi.
RECURSIVE RunLength(_, _, _, _, _, _)
RunLength(a, b, i, j, ahi, bhi) ==
    IF i < ahi /\ j < bhi /\ Item(a, i) = Item(b, j)
    THEN 1 + RunLength(a, b, i + 1, j + 1, ahi, bhi)
    ELSE 0

\* find_longest_match: the longest block a[i:i+k] = b[j:j+k] inside
\* a[alo:ahi], b[blo:bhi]; of the longest the one that starts earliest in a,
\* and of those the one that starts earliest in b; (alo, blo, 0) if none.
FindLongestMatch(a, b, alo, ahi, blo, bhi) ==
    LET blocks == {[i |-> i, j |-> j, k |-> RunLength(a, b, i, j, ahi, bhi)] :
                      i \in alo..(ahi - 1), j \in blo..(bhi - 1)}
        matches == {m \in blocks : m.k > 0}
        Better(m, n) ==
            \/ m.k > n.k
            \/ m.k = n.k /\ m.i < n.i
            \/ m.k = n.k /\ m.i = n.i /\ m.j <= n.j
    IN  IF matches = {} THEN [i |-> alo, j |-> blo, k |-> 0]
        ELSE CHOOSE m \in matches : \A n \in matches : Better(m, n)

\* get_matching_blocks, before the blocks are collapsed: the longest match,
\* then the same to its left and to its right, in increasing order.
RECURSIVE MatchingBlocksIn(_, _, _, _, _, _)
MatchingBlocksIn(a, b, alo, ahi, blo, bhi) ==
    LET m == FindLongestMatch(a, b, alo, ahi, blo, bhi)
    IN  IF m.k = 0 THEN <<>>
        ELSE (IF alo < m.i /\ blo < m.j
              THEN MatchingBlocksIn(a, b, alo, m.i, blo, m.j) ELSE <<>>)
             \o <<m>>
             \o (IF m.i + m.k < ahi /\ m.j + m.k < bhi
                 THEN MatchingBlocksIn(a, b, m.i + m.k, ahi, m.j + m.k, bhi)
                 ELSE <<>>)

\* get_matching_blocks collapses adjacent blocks into one.
RECURSIVE CollapseBlocks(_)
CollapseBlocks(blocks) ==
    IF Len(blocks) < 2 THEN blocks
    ELSE LET m == blocks[1]
             n == blocks[2]
         IN  IF m.i + m.k = n.i /\ m.j + m.k = n.j
             THEN CollapseBlocks(<<[i |-> m.i, j |-> m.j, k |-> m.k + n.k]>>
                                 \o Tail(Tail(blocks)))
             ELSE <<m>> \o CollapseBlocks(Tail(blocks))

\* get_matching_blocks: the collapsed blocks and the closing (len(a), len(b), 0)
GetMatchingBlocks(a, b) ==
    CollapseBlocks(MatchingBlocksIn(a, b, 0, Len(a), 0, Len(b)))
    \o <<[i |-> Len(a), j |-> Len(b), k |-> 0]>>

\* get_opcodes: what turns a into b, block by block from (i, j) on
RECURSIVE OpcodesFrom(_, _, _)
OpcodesFrom(blocks, i, j) ==
    IF blocks = <<>> THEN <<>>
    ELSE LET m == Head(blocks)
             tag == IF i < m.i /\ j < m.j THEN "replace"
                    ELSE IF i < m.i THEN "delete"
                    ELSE IF j < m.j THEN "insert"
                    ELSE ""
         IN  (IF tag # ""
              THEN <<[tag |-> tag, i1 |-> i, i2 |-> m.i, j1 |-> j, j2 |-> m.j]>>
              ELSE <<>>)
             \o (IF m.k > 0
                 THEN <<[tag |-> "equal", i1 |-> m.i, i2 |-> m.i + m.k,
                         j1 |-> m.j, j2 |-> m.j + m.k]>>
                 ELSE <<>>)
             \o OpcodesFrom(Tail(blocks), m.i + m.k, m.j + m.k)

GetOpcodes(a, b) == OpcodesFrom(GetMatchingBlocks(a, b), 0, 0)

\* not list(difflib.unified_diff(a, b, lineterm='')): the diff has no group of
\* opcodes exactly when every opcode is 'equal', that is when a = b.
NoDiff(a, b) ==
    LET opcodes == GetOpcodes(a, b)
    IN  \A n \in 1..Len(opcodes) : opcodes[n].tag = "equal"

\* Lines 59-83: the change a side makes at each index of the original, as a
\* function on the indices it changes (the dict user_changes or disk_changes).
\* The change one opcode makes at index i:
ChangeAt(op, i, lines) ==
    IF op.tag = "insert" /\ i = op.i1
    THEN [type |-> "insert", new |-> Slice(lines, op.j1, op.j2)]
    ELSE IF op.tag = "delete"
    THEN [type |-> "delete", new |-> <<>>]
    ELSE IF i = op.i1
    THEN [type |-> "replace", new |-> Slice(lines, op.j1, op.j2)]
    ELSE [type |-> "delete", new |-> <<>>]

\* the indices range(i1, max(i2, i1 + 1)) of an opcode that is not 'equal'
ChangedRange(op) ==
    IF op.tag = "equal" THEN {} ELSE op.i1..(Max(op.i2, op.i1 + 1) - 1)

\* The dict after the loop over the opcodes: a later opcode's entry replaces
\* an earlier one's.
Changes(opcodes, lines) ==
    LET Covering(i) == {n \in 1..Len(opcodes) : i \in ChangedRange(opcodes[n])}
        Last(i) == CHOOSE n \in Covering(i) : \A m \in Covering(i) : m <= n
        keys == UNION {ChangedRange(opcodes[n]) : n \in 1..Len(opcodes)}
    IN  [i \in keys |-> ChangeAt(opcodes[Last(i)], i, lines)]

\* Lines 127-131: the conflict block for the two sides' new lines
ConflictBlock(user_new, disk_new) ==
    <<<<START_MARKER, NL>>>>
    \o (IF user_new # <<>> THEN user_new ELSE <<<<LINE_DELETED, NL>>>>)
    \o <<<<SEPARATOR, NL>>>>
    \o (IF disk_new # <<>> THEN disk_new ELSE <<<<LINE_DELETED, NL>>>>)
    \o <<<<END_MARKER, NL>>>>

\* Lines 117 and 119 for an index both sides change
SameChangeNever(user_change, disk_change) == FALSE
SameChange(user_change, disk_change) == user_change.new = disk_change.new

\* Lines 97-110: the lines an index gives when one side alone changes it
ApplyOneSide(change) ==
    IF change.type = "delete" THEN <<>> ELSE change.new

\* Lines 90-133: one pass of the loop body at index i, on the state st of
\* merged_lines, has_conflicts and conflicts (the line numbers of the
\* "Conflict at line N" entries).
WalkStep(original_lines, user_changes, disk_changes, i, st) ==
    IF i \notin DOMAIN user_changes /\ i \notin DOMAIN disk_changes
    THEN [st EXCEPT !.merged_lines = @ \o <<Item(original_lines, i)>>]
    ELSE IF i \notin DOMAIN user_changes
    THEN [st EXCEPT !.merged_lines = @ \o ApplyOneSide(disk_changes[i])]
    ELSE IF i \notin DOMAIN disk_changes
    THEN [st EXCEPT !.merged_lines = @ \o ApplyOneSide(user_changes[i])]
    ELSE IF SameChange(user_changes[i], disk_changes[i])
    THEN IF user_changes[i].type # "delete"
         THEN [st EXCEPT !.merged_lines = @ \o user_changes[i].new]
         ELSE st
    ELSE [merged_lines |-> st.merged_lines
                           \o ConflictBlock(user_changes[i].new, disk_changes[i].new),
          has_conflicts |-> TRUE,
          conflicts |-> Append(st.conflicts, i + 1)]

\* while i < len(original_lines)
RECURSIVE Walk(_, _, _, _, _)
Walk(original_lines, user_changes, disk_changes, i, st) ==
    IF i < Len(original_lines)
    THEN Walk(original_lines, user_changes, disk_changes, i + 1,
              WalkStep(original_lines, user_changes, disk_changes, i, st))
    ELSE st

\* Lines 137-139
KeepFinalNewlineNever(original, merged_content) == merged_content
KeepFinalNewline(original, merged_content) ==
    IF EndsWithNewline(original) /\ ~EndsWithNewline(merged_content)
    THEN merged_content \o <<NL>>
    ELSE merged_content

\* Lines 42-141: the merge when both sides differ from the original
GeneralMerge(original, user_version, disk_version) ==
    LET original_lines == Splitlines(original)
        user_lines == Splitlines(user_version)
        disk_lines == Splitlines(disk_version)
        user_changes == Changes(GetOpcodes(original_lines, user_lines), user_lines)
        disk_changes == Changes(GetOpcodes(original_lines, disk_lines), disk_lines)
        st == Walk(original_lines, user_changes, disk_changes, 0,
                   [merged_lines |-> <<>>, has_conflicts |-> FALSE,
                    conflicts |-> <<>>])
    IN  [merged_content |-> KeepFinalNewline(original, Join(st.merged_lines)),
         has_conflicts |-> st.has_conflicts,
         conflicts |-> st.conflicts]

\* Lines 27 and 28: the unified diff of the original and a version has lines
UserDiffAlways(original, user_version) == TRUE
UserDiff(original, user_version) ==
    ~NoDiff(Splitlines(original), Splitlines(user_version))
DiskDiffAlways(original, disk_version) == TRUE
DiskDiff(original, disk_version) ==
    ~NoDiff(Splitlines(original), Splitlines(disk_version))

\* three_way_merge
ThreeWayMerge(original, user_version, disk_version) ==
    LET user_diff == UserDiff(original, user_version)
        disk_diff == DiskDiff(original, disk_version)
        Unmerged(s) == [merged_content |-> s, has_conflicts |-> FALSE,
                        conflicts |-> <<>>]
    IN  IF ~user_diff /\ ~disk_diff THEN Unmerged(original)
        ELSE IF ~disk_diff THEN Unmerged(user_version)
        ELSE IF ~user_diff THEN Unmerged(disk_version)
        ELSE GeneralMerge(original, user_version, disk_version)

\* simple_merge: the merged text and whether others had changed the file
SimpleMerge(original, user_version, disk_version) ==
    IF disk_version = original
    THEN [merged_content |-> user_version, was_merged |-> FALSE]
    ELSE IF user_version = original
    THEN [merged_content |-> disk_version, was_merged |-> TRUE]
    ELSE IF user_version = disk_version
    THEN [merged_content |-> user_version, was_merged |-> FALSE]
    ELSE [merged_content |->
              ThreeWayMerge(original, user_version, disk_version).merged_content,
          was_merged |-> TRUE]

\* The texts a merge is called on: up to MaxLines lines over a few letters,
\* each line ended by a newline, and the same texts of up to MaxBareLines
\* lines without their final newline.  The original is written with
\* BaseLetters; the two versions may also hold the new letter "x".
MaxLines == 3
MaxBareLines == 2
BaseLetters == {"a", "b"}
EditLetters == {"a", "b", "x"}

LinesOver(letters) == {<<c, NL>> : c \in letters}
Terminated(letters, n) ==
    {Join(ls) : ls \in UNION {[1..k -> LinesOver(letters)] : k \in 0..n}}
Bare(letters, n) ==
    {SubSeq(s, 1, Len(s) - 1) : s \in Terminated(letters, n) \ {<<>>}}
Texts(letters) == Terminated(letters, MaxLines) \cup Bare(letters, MaxBareLines)

Originals == Texts(BaseLetters)
Versions == Texts(EditLetters)

ThreeWayMergeCall ==
    /\ merge_out.fn = "none"
    /\ merge_out' = [fn |-> "three_way_merge",
                     out |-> ThreeWayMerge(merge_in.original, merge_in.user_version,
                                           merge_in.disk_version)]
    /\ UNCHANGED merge_in

SimpleMergeCall ==
    /\ merge_out.fn = "none"
    /\ merge_out' = [fn |-> "simple_merge",
                     out |-> SimpleMerge(merge_in.original, merge_in.user_version,
                                         merge_in.disk_version)]
    /\ UNCHANGED merge_in

InitMerge ==
    /\ InitLocks
    /\ InitNoWrite
    /\ merge_in \in [original : Originals, user_version : Versions,
                     disk_version : Versions]
    /\ merge_out = [fn |-> "none"]

NextMerge ==
    \/ ThreeWayMergeCall /\ UNCHANGED <<lockVars, dbt_command_status, loop, pc, ret, key, action, opname, rv, resp, outcome, histVars, observed, releases, n_ops, fileVars>>
    \/ SimpleMergeCall /\ UNCHANGED <<lockVars, dbt_command_status, loop, pc, ret, key, action, opname, rv, resp, outcome, histVars, observed, releases, n_ops, fileVars>>

SpecMerge == InitMerge /\ [][NextMerge]_vars

----------------------------------------------------------------------------
\* routes/file_routes.py: write_file
\*
\* The handler is `async def` and never awaits: it runs from its first
\* statement to its return with no other handler in between, so it is one
\* step.  The file is a text file inside the project directory (no 400, 403
\* or 500 answer); a file that does not exist is NoFile.

\* Python's None where a text is expected: an absent originalContent, the
\* "content" of an answer that carries no text.
NoContent == <<None>>
\* file_path.exists() is false
NoFile == <<"<no file>">>

\* The texts a write_file request carries and the file holds: up to
\* MaxWriteLines lines over WriteLetters, one of which is the text of the
\* conflict start marker typed as a line of the file.
MaxWriteLines == 2
WriteLetters == {"a", "b", "x", START_MARKER}
WriteTexts == Terminated(WriteLetters, MaxWriteLines)

\* '<<<<<<< YOUR CHANGES' in merged_content
ContainsMarker(text) == \E n \in 1..Len(text) : text[n] = START_MARKER

\* Lines 218-219
NotFoundAnswer ==
    [code |-> 404, detail |-> "File does not exist"]

\* Lines 249-256
ConflictAnswer(merged_content, disk_content) ==
    [code |-> 200, success |-> TRUE, merged |-> TRUE, hasConflicts |-> TRUE,
     content |-> merged_content, diskContent |-> disk_content]

\* Lines 262-268
WrittenAnswer(merged_content, was_merged) ==
    [code |-> 200, success |-> TRUE, merged |-> was_merged,
     hasConflicts |-> FALSE,
     content |-> IF was_merged THEN merged_content ELSE NoContent]

\* Lines 239-240: the file is merged only when a baseline came with the
\* request and the file differs from it
NeedsMergeAlways(original_content, disk_content) == TRUE
NeedsMergeWhenDiffers(original_content, disk_content) ==
    disk_content # original_content
NeedsMerge(original_content, disk_content) ==
    original_content # NoContent /\ disk_content # original_content

\* Lines 258-260: open(file_path, 'w') and f.write(merged_content)
WriteText(old, merged_content) == merged_content

\* Line 246-248: with conflicts nothing is written
OnConflictOverwrite(disk_content, merged_content) == merged_content
OnConflict(disk_content, merged_content) == disk_content

\* Lines 234-243: merged_content and was_merged, with merge telling whether
\* simple_merge is called
MergedContent(merge, content, original_content, disk_content) ==
    IF merge
    THEN SimpleMerge(original_content, content, disk_content)
    ELSE [merged_content |-> content, was_merged |-> FALSE]

\* Lines 245-268 for m, the merged_content and was_merged of lines 234-243
Outcome(merge, m, disk_content, old) ==
    IF merge /\ ContainsMarker(m.merged_content)
    THEN [merge_called |-> merge,
          file |-> OnConflict(old, m.merged_content),
          answer |-> ConflictAnswer(m.merged_content, disk_content)]
    ELSE [merge_called |-> merge,
          file |-> WriteText(old, m.merged_content),
          answer |-> WrittenAnswer(m.merged_content, m.was_merged)]

\* Lines 234-268: what the handler does once it has read disk_content, on a
\* file that holds old when the handler reaches its write: whether it calls
\* simple_merge, the text the file holds afterwards, and the answer.
WriteOutcome(content, original_content, disk_content, old) ==
    Outcome(NeedsMerge(original_content, disk_content),
            MergedContent(NeedsMerge(original_content, disk_content),
                          content, original_content, disk_content),
            disk_content, old)

\* The file and write_out after a request that read disk_content and ended
\* with the outcome out
Written(content, original_content, disk_content, out) ==
    /\ file_content' = out.file
    /\ write_out' = [fn |-> "write_file", content |-> content,
                     original_content |-> original_content,
                     disk_content |-> disk_content,
                     merge_called |-> out.merge_called,
                     answer |-> out.answer]

\* write_file(file_data) with file_data['content'] = content and
\* file_data.get('originalContent') = original_content.  write_out keeps the
\* request, the disk_content the handler read, whether it called simple_merge,
\* and its answer.
WriteFile(content, original_content) ==
    /\ IF file_content = NoFile
       THEN /\ write_out' = [fn |-> "write_file", content |-> content,
                             original_content |-> original_content,
                             disk_content |-> NoContent,
                             merge_called |-> FALSE,
                             answer |-> NotFoundAnswer]
            /\ UNCHANGED file_content
       ELSE Written(content, original_content, file_content,
                    WriteOutcome(content, original_content, file_content,
                                 file_content))
    /\ UNCHANGED requests

\* a request arrives when the last one has been answered
WriteFileCall ==
    /\ write_out.fn = "none"
    /\ \E content \in WriteTexts, original_content \in WriteTexts \cup {NoContent} :
           WriteFile(content, original_content)

\* the answer has been sent
WriteFileReturn ==
    /\ write_out.fn = "write_file"
    /\ write_out' = [fn |-> "none"]
    /\ UNCHANGED <<file_content, requests>>

InitWrite ==
    /\ InitLocks
    /\ InitNoMerge
    /\ file_content \in WriteTexts \cup {NoFile}
    /\ write_out = [fn |-> "none"]
    /\ requests = [c \in Clients |-> NoRequest]

NextWrite ==
    \/ WriteFileCall /\ UNCHANGED <<lockVars, dbt_command_status, loop, pc, ret, key, action, opname, rv, resp, outcome, histVars, observed, releases, n_ops, mergeVars>>
    \/ WriteFileReturn /\ UNCHANGED <<lockVars, dbt_command_status, loop, pc, ret, key, action, opname, rv, resp, outcome, histVars, observed, releases, n_ops, mergeVars>>

SpecWrite == InitWrite /\ [][NextWrite]_vars

----------------------------------------------------------------------------
\* routes/file_routes.py: write_file, two requests for the same file
\*
\* The handler in two steps, its read of the file (lines 230-231) and what
\* follows up to its return, for two clients whose requests the event loop
\* runs.  The file exists.

\* The texts of these requests and of the file: up to MaxClientLines lines
MaxClientLines == 1
ClientTexts == Terminated(EditLetters, MaxClientLines)

\* Line 210: write_file is a coroutine, which the event loop starts when it
\* runs no other handler
LoopIdleAlways == TRUE
LoopIdle == loop = None

\* Lines 212-232: the request is taken apart and the file is read
WriteFileRead(c, content, original_content) ==
    /\ requests[c].pc = "idle"
    /\ LoopIdle
    /\ loop' = c
    /\ requests' = [requests EXCEPT ![c] =
                        [pc |-> "read", content |-> content,
                         original_content |-> original_content,
                         disk_content |-> file_content]]
    /\ UNCHANGED <<file_content, write_out>>

\* The file and the client's record after a request that ended with the
\* outcome out
Answered(c, out) ==
    /\ file_content' = out.file
    /\ requests' = [requests EXCEPT ![c] =
                        [pc |-> "answered",
                         disk_content |-> requests[c].disk_content,
                         overwritten |-> file_content,
                         hasConflicts |-> out.answer.hasConflicts]]

\* Lines 234-268: the merge if one is needed, the write unless the merged text
\* holds the marker, and the return, which frees the loop (the handler has no
\* await before it).  Of the request and its answer the client keeps the
\* disk_content the handler read and the answer's hasConflicts; `overwritten`
\* is the text the file held when the handler reached this step.
WriteFileWrite(c) ==
    /\ requests[c].pc = "read"
    /\ Answered(c, WriteOutcome(requests[c].content,
                                requests[c].original_content,
                                requests[c].disk_content, file_content))
    /\ loop' = None
    /\ UNCHANGED write_out

\* the client has its answer
WriteFileAnswered(c) ==
    /\ requests[c].pc = "answered"
    /\ requests' = [requests EXCEPT ![c] = NoRequest]
    /\ UNCHANGED <<file_content, write_out, loop>>

InitWriters ==
    /\ InitLocks
    /\ InitNoMerge
    /\ file_content \in ClientTexts
    /\ write_out = [fn |-> "none"]
    /\ requests = [c \in Clients |-> NoRequest]

NextWriters ==
    \/ \E c \in Clients, content \in ClientTexts, original_content \in ClientTexts \cup {NoContent} : WriteFileRead(c, content, original_content) /\ UNCHANGED <<lockVars, dbt_command_status, pc, ret, key, action, opname, rv, resp, outcome, histVars, observed, releases, n_ops, mergeVars>>
    \/ \E c \in Clients : WriteFileWrite(c) /\ UNCHANGED <<lockVars, dbt_command_status, pc, ret, key, action, opname, rv, resp, outcome, histVars, observed, releases, n_ops, mergeVars>>
    \/ \E c \in Clients : WriteFileAnswered(c) /\ UNCHANGED <<lockVars, dbt_command_status, pc, ret, key, action, opname, rv, resp, outcome, histVars, observed, releases, n_ops, mergeVars>>

SpecWriters == InitWriters /\ [][NextWriters]_vars

----------------------------------------------------------------------------
\* Properties of write_file

\* the last request was answered 200 and carried a baseline
WroteWithBaseline ==
    /\ write_out.fn = "write_file"
    /\ write_out.answer.code = 200
    /\ write_out.original_content # NoContent

\* what the merge engine gives for the last request: the baseline, the
\* client's content and the content the file had
EngineResult ==
    ThreeWayMerge(write_out.original_content, write_out.content,
                  write_out.disk_content)
EngineText ==
    SimpleMerge(write_out.original_content, write_out.content,
                write_out.disk_content).merged_content

C12_CleanWriteIsVerbatim ==
    (/\ WroteWithBaseline
     /\ write_out.disk_content = write_out.original_content)
    => /\ file_content = write_out.content
       /\ ~write_out.merge_called
       /\ ~write_out.answer.merged
       /\ ~write_out.answer.hasConflicts

\* baseline "a", file still "a", local edit "x" (P10): the file becomes "x"
C12_Witness ==
    /\ WroteWithBaseline
    /\ write_out.original_content = <<"a", NL>>
    /\ write_out.disk_content = <<"a", NL>>
    /\ write_out.content = <<"x", NL>>
    /\ file_content = <<"x", NL>>

\* C13: a write_file with a baseline, on a file that differs from the
\* baseline and whose merge reports no conflict, persists the merged text
\* (the file then equals the merge engine's merged text) and answers
\* hasConflicts = false.
C13_CleanMergeIsPersisted ==
    (/\ WroteWithBaseline
     /\ write_out.disk_content # write_out.original_content
     /\ ~EngineResult.has_conflicts)
    => /\ file_content = EngineText
       /\ ~write_out.answer.hasConflicts

\* C26: a write_file with a baseline, on a file that differs from the
\* baseline, answers hasConflicts = true and leaves the file as it was exactly
\* when the merge engine's has_conflicts flag for (baseline, local, stored) is
\* true; when the flag is false the merged text is persisted, whatever lines
\* the texts hold.
C26_ConflictExactlyWhenEngineSays ==
    (/\ WroteWithBaseline
     /\ write_out.disk_content # write_out.original_content)
    => /\ write_out.answer.hasConflicts = EngineResult.has_conflicts
       /\ file_content = IF EngineResult.has_conflicts
                         THEN write_out.disk_content
                         ELSE EngineText

----------------------------------------------------------------------------
\* Properties of two write_file requests

\* C28: a write_file request that writes overwrites the content it read and
\* compared with its baseline: no other request's write takes effect between
\* its read of the file and its own write.
C28_WriteOverwritesWhatItRead ==
    \A c \in Clients :
        (requests[c].pc = "answered" /\ ~requests[c].hasConflicts)
        => requests[c].overwritten = requests[c].disk_content

\* c1 has written over "a"; c2 has then read c1's "x" and written "b" over it
C28_Witness ==
    /\ requests["c1"].pc = "answered" /\ requests["c2"].pc = "answered"
    /\ requests["c1"].disk_content = <<"a", NL>>
    /\ ~requests["c1"].hasConflicts
    /\ requests["c2"].disk_content = <<"x", NL>>
    /\ requests["c2"].overwritten = <<"x", NL>>
    /\ ~requests["c2"].hasConflicts
    /\ file_content = <<"b", NL>>

----------------------------------------------------------------------------
\* Properties of the merge

OriginalLines == Splitlines(merge_in.original)
UserLines == Splitlines(merge_in.user_version)
DiskLines == Splitlines(merge_in.disk_version)
\* the edit scripts from the original to each version, anchored to the
\* indices of the original's lines
UserOpcodes == GetOpcodes(OriginalLines, UserLines)
DiskOpcodes == GetOpcodes(OriginalLines, DiskLines)
UserChanges == Changes(UserOpcodes, UserLines)
DiskChanges == Changes(DiskOpcodes, DiskLines)
MergedLines == Splitlines(merge_out.out.merged_content)

\* three_way_merge has returned from its general algorithm on three texts
\* that differ pairwise
GeneralMerged ==
    /\ merge_out.fn = "three_way_merge"
    /\ merge_in.user_version # merge_in.original
    /\ merge_in.disk_version # merge_in.original
    /\ merge_in.user_version # merge_in.disk_version

\* index i of the original is in an 'equal' region of the edit script
EqualAt(opcodes, i) ==
    \E n \in 1..Len(opcodes) :
        opcodes[n].tag = "equal" /\ opcodes[n].i1 <= i /\ i < opcodes[n].i2
\* the edit script deletes or replaces the original's line i
RemovedAt(opcodes, i) ==
    \E n \in 1..Len(opcodes) :
        /\ opcodes[n].tag \in {"delete", "replace"}
        /\ opcodes[n].i1 <= i /\ i < opcodes[n].i2
\* neither side changed the original's line i
Untouched(i) == EqualAt(UserOpcodes, i) /\ EqualAt(DiskOpcodes, i)

\* the untouched lines of the original with indices lo .. hi - 1, in order
RECURSIVE UntouchedLines(_, _)
UntouchedLines(lo, hi) ==
    IF lo >= hi THEN <<>>
    ELSE (IF Untouched(lo) THEN <<Item(OriginalLines, lo)>> ELSE <<>>)
         \o UntouchedLines(lo + 1, hi)

\* s is t with some items left out
RECURSIVE IsSubsequence(_, _)
IsSubsequence(s, t) ==
    IF s = <<>> THEN TRUE
    ELSE IF t = <<>> THEN FALSE
    ELSE IF Head(s) = Head(t) THEN IsSubsequence(Tail(s), Tail(t))
    ELSE IsSubsequence(s, Tail(t))

\* s is a run of consecutive items of t
IsInfix(s, t) ==
    \E k \in 0..(Len(t) - Len(s)) : SubSeq(t, k + 1, k + Len(s)) = s

\* the lines the walk gives for the indices lo .. hi - 1 of the original
RECURSIVE EmittedBetween(_, _)
EmittedBetween(lo, hi) ==
    IF lo >= hi THEN <<>>
    ELSE WalkStep(OriginalLines, UserChanges, DiskChanges, lo,
                  [merged_lines |-> <<>>, has_conflicts |-> FALSE,
                   conflicts |-> <<>>]).merged_lines
         \o EmittedBetween(lo + 1, hi)

\* C14: when the merge reports no conflict, every line that local added to
\* the baseline and every line that remote added occurs in the merged text,
\* and a baseline line is missing from the merged text only if a side
\* deleted or replaced it.
C14_NoWorkDropped ==
    (merge_out.fn = "three_way_merge" /\ ~merge_out.out.has_conflicts)
    => /\ \A l \in Range(UserLines) \ Range(OriginalLines) : l \in Range(MergedLines)
       /\ \A l \in Range(DiskLines) \ Range(OriginalLines) : l \in Range(MergedLines)
       /\ \A i \in 0..(Len(OriginalLines) - 1) :
              Item(OriginalLines, i) \notin Range(MergedLines)
              => RemovedAt(UserOpcodes, i) \/ RemovedAt(DiskOpcodes, i)

\* C15: with the remote text equal to the baseline, the merge returns the
\* local text exactly, with no conflict, whether or not the local text
\* differs from the baseline.
C15_RemoteUnchangedGivesLocal ==
    (merge_out.fn # "none" /\ merge_in.disk_version = merge_in.original)
    => /\ merge_out.out.merged_content = merge_in.user_version
       /\ merge_out.fn = "three_way_merge"
          => ~merge_out.out.has_conflicts /\ merge_out.out.conflicts = <<>>
       /\ merge_out.fn = "simple_merge" => ~merge_out.out.was_merged

\* three_way_merge called with a remote equal to the baseline and a local
\* that puts a line before the baseline's
C15_Witness ==
    /\ merge_out.fn = "three_way_merge"
    /\ merge_in.original = <<"a", NL>>
    /\ merge_in.disk_version = <<"a", NL>>
    /\ merge_in.user_version = <<"x", NL, "a", NL>>
    /\ merge_out.out.merged_content = <<"x", NL, "a", NL>>

\* C16: with the local text equal to the baseline and the remote text
\* different from it, the merge returns the remote text exactly, with no
\* conflict.
C16_LocalUnchangedGivesRemote ==
    (/\ merge_out.fn # "none"
     /\ merge_in.user_version = merge_in.original
     /\ merge_in.disk_version # merge_in.original)
    => /\ merge_out.out.merged_content = merge_in.disk_version
       /\ merge_out.fn = "three_way_merge"
          => ~merge_out.out.has_conflicts /\ merge_out.out.conflicts = <<>>

\* three_way_merge called with a local equal to the baseline and a remote
\* that puts a line before the baseline's
C16_Witness ==
    /\ merge_out.fn = "three_way_merge"
    /\ merge_in.original = <<"a", NL>>
    /\ merge_in.user_version = <<"a", NL>>
    /\ merge_in.disk_version = <<"x", NL, "a", NL>>
    /\ merge_out.out.merged_content = <<"x", NL, "a", NL>>

\* the conflict block the two sides' new lines at one index should give: the
\* start marker, local's lines or the placeholder, the separator, remote's
\* lines or the placeholder, the end marker
ExpectedBlock(i) ==
    <<START_MARKER, NL>>
    \o (IF UserChanges[i].new = <<>> THEN <<LINE_DELETED, NL>>
        ELSE Join(UserChanges[i].new))
    \o <<SEPARATOR, NL>>
    \o (IF DiskChanges[i].new = <<>> THEN <<LINE_DELETED, NL>>
        ELSE Join(DiskChanges[i].new))
    \o <<END_MARKER, NL>>

\* both sides replace or delete the original's line i, with different lines
BothReplace(i) ==
    /\ i \in DOMAIN UserChanges /\ i \in DOMAIN DiskChanges
    /\ UserChanges[i].type \in {"replace", "delete"}
    /\ DiskChanges[i].type \in {"replace", "delete"}
    /\ UserChanges[i].new # DiskChanges[i].new

\* C17: in the general merge, when both sides replace (or delete) the same
\* baseline line with different content, hasConflicts is true and the merged
\* text holds at that place the block of start marker, local's lines (or the
\* "(line deleted)" placeholder), separator, remote's lines (or placeholder)
\* and end marker; the baseline lines before and after it that neither side
\* touched are kept, in their order.
C17_ConflictBlockInPlace ==
    GeneralMerged =>
        \A i \in 0..(Len(OriginalLines) - 1) :
            BothReplace(i) =>
                /\ merge_out.out.has_conflicts
                /\ \E k \in 0..Len(merge_out.out.merged_content) :
                       LET text == merge_out.out.merged_content
                           before == SubSeq(text, 1, k)
                           rest == SubSeq(text, k + 1, Len(text))
                           block == ExpectedBlock(i)
                       IN  /\ Len(rest) >= Len(block)
                           /\ SubSeq(rest, 1, Len(block)) = block
                           /\ IsSubsequence(UntouchedLines(0, i), Splitlines(before))
                           /\ IsSubsequence(
                                  UntouchedLines(i + 1, Len(OriginalLines)),
                                  Splitlines(SubSeq(rest, Len(block) + 1, Len(rest))))

\* both sides make the same replacement of the original's lines i1 .. i2 - 1
SameReplacement(u, d) ==
    /\ u.tag = "replace" /\ d.tag = "replace"
    /\ u.i1 = d.i1 /\ u.i2 = d.i2
    /\ Slice(UserLines, u.j1, u.j2) = Slice(DiskLines, d.j1, d.j2)

\* C18: in the general merge, when both sides make an identical replacement
\* of the same range of baseline lines, no conflict is reported for that
\* range and the merged text holds the replacement lines once, at that place:
\* between what the lines before the range give and what the lines after it
\* give.
C18_SameReplacementOnce ==
    GeneralMerged =>
        \A u \in Range(UserOpcodes), d \in Range(DiskOpcodes) :
            SameReplacement(u, d) =>
                /\ \A i \in u.i1..(u.i2 - 1) : (i + 1) \notin Range(merge_out.out.conflicts)
                /\ merge_out.out.merged_content =
                       KeepFinalNewline(merge_in.original,
                           Join(EmittedBetween(0, u.i1)
                                \o Slice(UserLines, u.j1, u.j2)
                                \o EmittedBetween(u.i2, Len(OriginalLines))))

\* both sides replace the first line "a" by "x", and local also replaces the
\* last line: "x" comes once, before what is left
C18_Witness ==
    /\ GeneralMerged
    /\ merge_in.original = <<"a", NL, "b", NL, "a", NL>>
    /\ merge_in.user_version = <<"x", NL, "b", NL, "x", NL>>
    /\ merge_in.disk_version = <<"x", NL, "b", NL, "a", NL>>
    /\ \E u \in Range(UserOpcodes), d \in Range(DiskOpcodes) : SameReplacement(u, d)
    /\ merge_out.out.merged_content = <<"x", NL, "b", NL, "x", NL>>

\* C19: in the general merge, every baseline line that lies in an 'equal'
\* region of both edit scripts appears in the merged text, in baseline order.
C19_UntouchedLinesKept ==
    GeneralMerged =>
        IsSubsequence(UntouchedLines(0, Len(OriginalLines)), MergedLines)

\* exactly one side has a change at position i of the original
OneSided(i) == (i \in DOMAIN UserChanges) # (i \in DOMAIN DiskChanges)
OneSidedChange(i) ==
    IF i \in DOMAIN UserChanges THEN UserChanges[i] ELSE DiskChanges[i]

\* C20: in the general merge, at every baseline position that only one side
\* edited that side's edit is applied and no conflict is reported for it: an
\* insert puts its lines at that position (before the baseline line that
\* follows, if there is one), a replace puts its lines in the merged text.
C20_OneSidedEditsApplied ==
    GeneralMerged =>
        \A i \in 0..Len(OriginalLines) :
            OneSided(i) =>
                /\ (i + 1) \notin Range(merge_out.out.conflicts)
                /\ OneSidedChange(i).type = "replace"
                   => IsInfix(OneSidedChange(i).new, MergedLines)
                /\ OneSidedChange(i).type = "insert"
                   => IsInfix(OneSidedChange(i).new
                              \o (IF i < Len(OriginalLines)
                                  THEN <<Item(OriginalLines, i)>> ELSE <<>>),
                              MergedLines)

\* both sides insert lines before position i of the original (i is the number
\* of lines for lines put after the last one), and not the same lines
BothInsert(i) ==
    /\ i \in DOMAIN UserChanges /\ i \in DOMAIN DiskChanges
    /\ UserChanges[i].type = "insert" /\ DiskChanges[i].type = "insert"
    /\ UserChanges[i].new # DiskChanges[i].new

\* C21: in the general merge, when local and remote each insert different
\* lines at the same baseline position, no conflict is reported for that
\* position and the merged text holds both sides' inserted lines, one side's
\* after the other's, with no conflict marker.
C21_SamePlaceInsertsBothApplied ==
    GeneralMerged =>
        \A i \in 0..Len(OriginalLines) :
            BothInsert(i) =>
                /\ (i + 1) \notin Range(merge_out.out.conflicts)
                /\ \/ IsInfix(UserChanges[i].new \o DiskChanges[i].new, MergedLines)
                   \/ IsInfix(DiskChanges[i].new \o UserChanges[i].new, MergedLines)
                /\ ~merge_out.out.has_conflicts
                   => ~ContainsMarker(merge_out.out.merged_content)

\* what the walk assembles: ''.join(merged_lines) of line 135
Assembled == Join(EmittedBetween(0, Len(OriginalLines)))

\* C24: in the general merge, when the baseline ends with a newline the
\* merged text ends with a newline; the merged text is the assembled text,
\* with one newline appended only when the baseline ended with a newline and
\* the assembled text did not.
C24_FinalNewlineKept ==
    GeneralMerged =>
        /\ EndsWithNewline(merge_in.original)
           => EndsWithNewline(merge_out.out.merged_content)
        /\ \/ merge_out.out.merged_content = Assembled
           \/ /\ merge_out.out.merged_content = Assembled \o <<NL>>
              /\ EndsWithNewline(merge_in.original)
              /\ ~EndsWithNewline(Assembled)

\* baseline "a" with its newline, local turns it into "x" without a newline,
\* remote adds a line: the assembled "x" gets the newline
C24_Witness ==
    /\ GeneralMerged
    /\ merge_in.original = <<"a", NL>>
    /\ merge_in.user_version = <<"x">>
    /\ merge_in.disk_version = <<"a", NL, "x", NL>>
    /\ Assembled = <<"x">>
    /\ merge_out.out.merged_content = <<"x", NL>>

\* s is the end of t
IsSuffix(s, t) ==
    Len(s) <= Len(t) /\ SubSeq(t, Len(t) - Len(s) + 1, Len(t)) = s

\* C27: in the general merge, the lines that only one side appended after the
\* last baseline line (an insert anchored at the number of baseline lines)
\* are the end of the merged text (up to the final newline the merge adds).
C27_AppendedLinesAtEnd ==
    GeneralMerged =>
        LET n == Len(OriginalLines)
        IN  OneSided(n) =>
                \/ IsSuffix(Join(OneSidedChange(n).new), merge_out.out.merged_content)
                \/ IsSuffix(Join(OneSidedChange(n).new) \o <<NL>>,
                            merge_out.out.merged_content)

====
